---------------------------- MODULE Spec2Model ----------------------------
(***************************************************************************)
(* Library content synchronisation of the Argos library window             *)
(* (src/argos/widgets/librarywindow.py): the GTK main thread rebuilds the   *)
(* directory store in _update_store, worker threads ("ImagesThread") walk  *)
(* it in _start_store_pixbufs_update_task, and both are coordinated by the *)
(* lock _ongoing_store_update and the flag _abort_pixbufs_update.  Image   *)
(* assignments travel from the workers to the main thread through          *)
(* GLib.idle_add.                                                          *)
(***************************************************************************)
EXTENDS Integers, Sequences, FiniteSets, TLC

\* ------------------------------------------------------------------ bounds
MaxThreads == 2          \* populate threads started in one behaviour
MaxBuilds == 2           \* runs of _update_store that reach the locked section
MaxResizes == 1          \* effective changes of the albums-image-size setting
MaxCoroutines == 2       \* client operations in flight at once
MaxClients == 2          \* MopidyHTTPClient objects
MaxCalls == 3            \* nested calls of _update_store that are followed
MaxGroup == 2            \* records of one kind in a directory
MaxAlbums == 129         \* albums of a large directory
MaxTextLen == 2          \* characters of a text given to the filter
MaxOtherKeys == 128      \* other keys requested from scale_album_image

\* --------------------------------------------------- DirectoryItemType values
ALBUM == 1
DIRECTORY == 2
PLAYLIST == 3
TRACK == 4

\* maxsize of functools.lru_cache when the decorator is given no argument.
CacheMaxSize == 128

Threads == 1..MaxThreads

\* Values the albums-image-size setting takes.
Widths == {32, 64, 128}

\* Locations known to the library; "" is the root location.
URIs == {"", "d1"}

\* Marker for "no uri argument" (uri=None in _update_store).
NoUri == "<none>"

\* --------------------------------------------------------------- pixbufs
\* A pixbuf is identified by how it was produced.  A placeholder is created
\* by _init_default_images for one kind and one width; gen counts the calls of
\* _init_default_images, since every call creates new pixbuf objects.
DefaultPixbuf(kind, width, gen) ==
    [tag |-> "default", kind |-> kind, path |-> "", width |-> width, gen |-> gen]

\* The result of a successful scale_album_image(path, target_width=width).
ScaledPixbuf(path, width) ==
    [tag |-> "scaled", kind |-> 0, path |-> path, width |-> width, gen |-> 0]

\* A key of scale_album_image's lru_cache that holds no result.
Uncached ==
    [tag |-> "miss", kind |-> 0, path |-> "", width |-> 0, gen |-> 0]

\* Python's None where a Pixbuf is expected.
NoPixbuf ==
    [tag |-> "none", kind |-> 0, path |-> "", width |-> 0, gen |-> 0]

\* --------------------------------------------------------- library content
\* Python's None where a str is expected.  A text is a sequence of
\* one-character strings.
None == << "None" >>

\* Source records of the model (AlbumModel, DirectoryModel, PlaylistModel,
\* TrackModel): uri, image_path ("" when absent) and whether the record has an
\* image_uri property.
Rec(uri, image_path, has_image_uri) ==
    [uri |-> uri, image_path |-> image_path, image_uri |-> has_image_uri,
     name |-> << "a" >>, artist_name |-> None]

\* A source record with the given name and artist_name (None for a record
\* that has no artist_name property or whose artist_name is None).
NamedRec(uri, name, artist_name) ==
    [uri |-> uri, image_path |-> "", image_uri |-> FALSE,
     name |-> name, artist_name |-> artist_name]

\* What self._model.get_directory(uri) returns once the location is loaded.
Directory(albums, directories, playlists, tracks) ==
    [albums |-> albums, directories |-> directories, playlists |-> playlists,
     tracks |-> tracks, missing |-> FALSE]

\* get_directory returns None for a location that is not loaded (yet).
NoDirectory ==
    [albums |-> << >>, directories |-> << >>, playlists |-> << >>,
     tracks |-> << >>, missing |-> TRUE]

\* Locations show_directory may be asked for: those above and one more.
Locations == URIs \cup {"d2"}

Library ==
    [u \in Locations |->
        IF u = ""
        THEN Directory(<< Rec("a1", "p1", TRUE) >>,
                       << Rec("d1", "", FALSE) >>, << >>, << >>)
        ELSE IF u = "d1"
        THEN Directory(<< >>, << >>, << >>, << Rec("t1", "", FALSE) >>)
        ELSE Directory(<< >>, << >>, << Rec("l1", "", FALSE) >>, << >>)]

\* self._model.get_directory(uri); found says whether the location is loaded.
get_directory(uri, found) == IF found THEN Library[uri] ELSE NoDirectory

Paths == {"p1"}

VARIABLES
    directory_uri,          \* self.props.directory_uri
    parent_uris,            \* self._parent_uris
    visible_child,          \* library_stack's visible child name
    image_size,             \* self.image_size
    inits,                  \* calls of _init_default_images after construction
    store,                  \* rows of the Gtk.ListStore behind the filter
    ongoing_store_update,   \* self._ongoing_store_update is locked
    abort_pixbufs_update,   \* self._abort_pixbufs_update
    cache,                  \* lru_cache of scale_album_image
    idle_queue,             \* callbacks queued with GLib.idle_add, in order
    sent,                   \* message types passed to self._app.send_message
    mpc,                    \* where the main thread is
    b_dir,                  \* _update_store's local: directory
    b_tail,                 \* show_directory has lines 337-339 left to run
    b_saw,                  \* the thread that held the lock when line 223 ran
    builds,                 \* times the store was cleared by _update_store
    tpc,                    \* where each populate thread is
    t_force,                \* each thread's force argument
    t_size,                 \* each thread's local image_size
    t_iter                  \* each thread's store_iter, as a row position

vars == << directory_uri, parent_uris, visible_child, image_size, inits, store,
           ongoing_store_update, abort_pixbufs_update, cache, idle_queue, sent,
           mpc, b_dir, b_tail, b_saw, builds, tpc, t_force, t_size, t_iter >>

\* State read or kept by the operations outside the build and populate
\* machinery.
VARIABLES
    event,                  \* the uri of the last directory-completed signal
    readable,               \* image files Pixbuf.new_from_file can decode now
    filtering_text,         \* self.props.filtering_text
    filter_arg,             \* the text last passed to set_filtering_text
    probe,                  \* the last direct call of scale_album_image
    command_id,             \* http._COMMAND_ID
    co,                     \* the client coroutines of MopidyHTTPClient
    posted,                 \* ids of the requests posted, in order
    requests,               \* the data of the requests built, in order
    ops                     \* the last two handler runs on record, newest first

xvars == << event, readable, filtering_text, filter_arg, probe, command_id, co,
            posted, requests, ops >>

allvars == << vars, xvars >>

\* ------------------------------------------------------------- helpers
\* What the lru_cache c holds for the key (image_path, width).
cached(c, image_path, width) ==
    LET hits == {i \in 1..Len(c) :
                    c[i].path = image_path /\ c[i].width = width}
    IN IF hits = {} THEN Uncached ELSE c[CHOOSE i \in hits : TRUE].result

\* self._default_images[kind]: _init_default_images builds the four
\* placeholders at self.image_size each time it is called.
default_images(kind) == DefaultPixbuf(kind, image_size, inits)

\* One row of the store: the columns URI, IMAGE_FILE_PATH, PIXBUF, FILTER_TEXT
\* (artist_name or ""), FILTER_TEXT_SECONDARY (the name) and TYPE.
build_store_item(model, type) ==
    [uri |-> model.uri, image_path |-> model.image_path,
     pixbuf |-> default_images(type),
     filter_text |-> IF model.artist_name = None THEN << >>
                     ELSE model.artist_name,
     filter_text_secondary |-> model.name,
     type |-> type]

\* The rows of _update_store's loop with the directories appended before
\* the albums.
BuildRowsDirectoriesFirst(directory) ==
    [i \in 1..Len(directory.directories) |->
        build_store_item(directory.directories[i], DIRECTORY)]
    \o [i \in 1..Len(directory.albums) |->
        build_store_item(directory.albums[i], ALBUM)]
    \o [i \in 1..Len(directory.playlists) |->
        build_store_item(directory.playlists[i], PLAYLIST)]
    \o [i \in 1..Len(directory.tracks) |->
        build_store_item(directory.tracks[i], TRACK)]

\* The rows _update_store appends for a directory, kind group by kind group.
BuildRows(directory) ==
    [i \in 1..Len(directory.albums) |->
        build_store_item(directory.albums[i], ALBUM)]
    \o [i \in 1..Len(directory.directories) |->
        build_store_item(directory.directories[i], DIRECTORY)]
    \o [i \in 1..Len(directory.playlists) |->
        build_store_item(directory.playlists[i], PLAYLIST)]
    \o [i \in 1..Len(directory.tracks) |->
        build_store_item(directory.tracks[i], TRACK)]

\* image_uris collected by _update_store's loop is not empty.
HasImageUris(directory) ==
    \E r \in {directory.albums[i] : i \in 1..Len(directory.albums)}
            \cup {directory.directories[i] : i \in 1..Len(directory.directories)}
            \cup {directory.playlists[i] : i \in 1..Len(directory.playlists)}
            \cup {directory.tracks[i] : i \in 1..Len(directory.tracks)} :
        r.image_uri

\* A thread is inside "with self._ongoing_store_update" of the populate task.
TaskLocked(t) == tpc[t] \in {"check", "item"}

\* The main thread is inside "with self._ongoing_store_update" of _update_store.
BuildLocked == mpc \in {"b_locked", "b_built", "b_raised"}

\* A populate task has ended, and how.
TaskEnded(t) == tpc[t] \in {"completed", "cancelled", "raised"}

\* The coroutines of the asyncio loop that run client operations.
Coroutines == 1..MaxCoroutines

\* The MopidyHTTPClient objects of the process.
Clients == 1..MaxClients

\* A coroutine that has not been called: client is the object whose method
\* it runs (0 before the call), op is the client operation, pc the
\* command it awaits, id the id in that command's data, phase whether the
\* request has been posted, refs the value kept from
\* core.playlists.get_items, err the exception that ended it and ret what it
\* returned.
CoIdle ==
    [client |-> 0, op |-> "none", pc |-> "idle", id |-> 0, phase |-> "",
     refs |-> "unset", err |-> "", ret |-> "unset"]

\* No direct call of scale_album_image yet.  others counts the other keys
\* requested so far and since those requested after the last call with the
\* watched key; held says that a decode for the watched key has succeeded
\* and last what the last call with the watched key returned; width, ok, ret
\* and decoded describe the last call: its target_width, whether the file
\* was decodable, what it returned and whether the file was decoded.
ProbeIdle ==
    [others |-> 0, since |-> 0, held |-> FALSE, last |-> "unset", width |-> 0,
     ok |-> FALSE, ret |-> Uncached, decoded |-> FALSE]

\* The additional state at construction: no signal delivered, no filter
\* text, no call of scale_album_image, no request sent.
ExtrasInit ==
    /\ event = [uri |-> NoUri, tick |-> 0]
    /\ readable = Paths
    /\ filtering_text = None
    /\ filter_arg = None
    /\ probe = ProbeIdle
    /\ command_id = 0
    /\ co = [c \in Coroutines |-> CoIdle]
    /\ posted = << >>
    /\ requests = << >>
    /\ ops = << >>

\* --------------------------------------------------------------- Init
\* The state after LibraryWindow.__init__: an empty store, the lock free, the
\* flag clear, the placeholders built once at the configured size.
Init ==
    /\ directory_uri \in URIs
    /\ parent_uris = IF directory_uri = "" THEN << >> ELSE << "" >>
    /\ visible_child = "directory_page"
    /\ image_size = 32
    /\ inits = 0
    /\ store = << >>
    /\ ongoing_store_update = FALSE
    /\ abort_pixbufs_update = FALSE
    /\ cache = << >>
    /\ idle_queue = << >>
    /\ sent = {}
    /\ mpc = "idle"
    /\ b_dir = NoDirectory
    /\ b_tail = FALSE
    /\ b_saw = 0
    /\ builds = 0
    /\ tpc = [t \in Threads |-> "unborn"]
    /\ t_force = [t \in Threads |-> FALSE]
    /\ t_size = [t \in Threads |-> 0]
    /\ t_iter = [t \in Threads |-> 0]
    /\ ExtrasInit

\* ------------------------------------------------- main thread: _update_store
\* Lines 221-225: with the directory at hand, raise the abort flag when the
\* lock is seen held, then go and wait for the lock.  tail records that the
\* call came from show_directory, which has lines 337-339 left to run.
EnterBuild(directory, tail) ==
    /\ builds < MaxBuilds
    /\ abort_pixbufs_update' =
          IF ongoing_store_update THEN TRUE ELSE abort_pixbufs_update
    /\ b_saw' = IF \E t \in Threads : TaskLocked(t)
                THEN CHOOSE t \in Threads : TaskLocked(t)
                ELSE 0
    /\ b_dir' = directory
    /\ b_tail' = tail
    /\ mpc' = "b_wait"

\* Lines 337-339 of show_directory: the browse message and the page selection.
ShowDirectoryTail ==
    /\ sent' = sent \cup {"BROWSE_DIRECTORY"}
    /\ visible_child' = "directory_page"

\* What get_directory finds during one handler run: the data of location u
\* is available as found says, the root's as rootfound says.
Loaded(u, found, rootfound) ==
    (IF found THEN {u} ELSE {})
    \cup (IF rootfound /\ u # "" THEN {""} ELSE {})

\* The account of one handler run of the main thread up to the point where
\* it builds or returns: the location and the parent stack it leaves, the
\* calls of _update_store, the times line 336 set directory_uri, the location
\* whose directory the innermost _update_store goes on to build (NoUri when
\* none does), whether lines 337-339 of a show_directory are left to run
\* after that, and whether the nesting went past MaxCalls.
RunStart ==
    [directory_uri |-> directory_uri, parent_uris |-> parent_uris, calls |-> 0,
     shown |-> 0, build |-> NoUri, tail |-> FALSE, overflow |-> FALSE]

RECURSIVE update_store_run(_, _)
RECURSIVE show_directory_run(_, _, _, _)

\* show_directory without lines 324-325: the property is set, and the
\* notification emitted, also when uri is the current location.
show_directory_run_always(r, uri, history, loaded) ==
    LET push == history /\ (\/ r.parent_uris = << >>
                            \/ r.parent_uris[Len(r.parent_uris)]
                                  # r.directory_uri)
        r1 == [r EXCEPT !.parent_uris = IF push THEN Append(@, r.directory_uri)
                                        ELSE @,
                        !.directory_uri = uri,
                        !.shown = @ + 1]
    IN [update_store_run(r1, loaded) EXCEPT !.tail = TRUE]

\* show_directory without lines 327-331: the location left is never pushed
\* on the parent stack.
show_directory_run_no_history(r, uri, history, loaded) ==
    IF uri = r.directory_uri
    THEN r
    ELSE [update_store_run([r EXCEPT !.directory_uri = uri, !.shown = @ + 1],
                           loaded) EXCEPT !.tail = TRUE]

\* show_directory(uri, history=history), lines 323-339: return at once for
\* the current location; else push the location left, when history is set
\* and it is not on top of the stack already, and set directory_uri, whose
\* notify::directory-uri handler (lines 96-98) runs _update_store within the
\* assignment; lines 337-339 follow.
show_directory_run(r, uri, history, loaded) ==
    IF uri = r.directory_uri
    THEN r
    ELSE LET push == history /\ (\/ r.parent_uris = << >>
                                 \/ r.parent_uris[Len(r.parent_uris)]
                                       # r.directory_uri)
             r1 == [r EXCEPT !.parent_uris =
                                 IF push THEN Append(@, r.directory_uri) ELSE @,
                             !.directory_uri = uri,
                             !.shown = @ + 1]
         IN [update_store_run(r1, loaded) EXCEPT !.tail = TRUE]

\* _update_store past the test of line 212, lines 215-221: the directory of
\* the current location is looked up; when there is none, show_directory("")
\* is called and the run returns; else the run goes on to build.
update_store_run(r, loaded) ==
    IF r.calls >= MaxCalls
    THEN [r EXCEPT !.overflow = TRUE]
    ELSE LET r1 == [r EXCEPT !.calls = @ + 1]
         IN IF r1.directory_uri \in loaded
            THEN [r1 EXCEPT !.build = r1.directory_uri]
            ELSE show_directory_run(r1, "", FALSE, loaded)

\* The main thread takes the state the run r leaves: it goes on to build
\* (lines 221-225) when a directory was found, and else runs what is left of
\* show_directory.
ApplyRun(r) ==
    /\ directory_uri' = r.directory_uri
    /\ parent_uris' = r.parent_uris
    /\ IF r.build # NoUri
       THEN /\ EnterBuild(get_directory(r.build, TRUE), r.tail)
            /\ UNCHANGED << visible_child, sent >>
       ELSE /\ IF r.tail
               THEN ShowDirectoryTail
               ELSE UNCHANGED << visible_child, sent >>
            /\ UNCHANGED << abort_pixbufs_update, mpc, b_dir, b_tail, b_saw >>
    /\ UNCHANGED << image_size, inits, store, ongoing_store_update, cache,
                    idle_queue, builds, tpc, t_force, t_size, t_iter >>

\* _update_store past the test of line 212, lines 215-225, with
\* show_directory("") and the _update_store it triggers through
\* notify::directory-uri when the current directory is not found.  found and
\* rootfound are what get_directory answers for the current location and for
\* the root.
UpdateStoreCurrent(found, rootfound) ==
    ApplyRun(update_store_run(RunStart,
                              Loaded(directory_uri, found, rootfound)))

\* _update_store without the test of lines 212-213: every directory-completed
\* signal is handled as if it were for the current location.
UpdateStoreAnyUri(uri, found, rootfound) ==
    /\ mpc = "idle"
    /\ UpdateStoreCurrent(found, rootfound)

\* _update_store(model, uri), lines 211-225: a signal that names a location
\* other than the current one returns at once.
UpdateStore(uri, found, rootfound) ==
    /\ mpc = "idle"
    /\ IF uri # NoUri /\ uri # directory_uri
       THEN UNCHANGED vars
       ELSE UpdateStoreCurrent(found, rootfound)

\* The handler of the model's directory-completed signal and of
\* notify::directory-uri, lines 96-98: _update_store, which touches nothing
\* else.
DirectoryCompleted(uri, found, rootfound) ==
    /\ UpdateStore(uri, found, rootfound)
    /\ UNCHANGED xvars

\* Line 228: the main thread enters "with self._ongoing_store_update".
UpdateStore_Acquire ==
    /\ mpc = "b_wait"
    /\ ~ongoing_store_update
    /\ ongoing_store_update' = TRUE
    /\ mpc' = "b_locked"
    /\ UNCHANGED << directory_uri, parent_uris, visible_child, image_size, inits,
                    store, abort_pixbufs_update, cache, idle_queue, sent, b_dir,
                    b_tail, b_saw, builds, tpc, t_force, t_size, t_iter >>
    /\ UNCHANGED xvars

\* UpdateStore_Body without line 229: the flag is left as it was.
UpdateStore_BodyKeepsFlag ==
    /\ mpc = "b_locked"
    /\ store' = BuildRows(b_dir)
    /\ builds' = builds + 1
    /\ mpc' = "b_built"
    /\ UNCHANGED << directory_uri, parent_uris, visible_child, image_size, inits,
                    ongoing_store_update, abort_pixbufs_update, cache, idle_queue,
                    sent, b_dir, b_tail, b_saw, tpc, t_force, t_size, t_iter >>
    /\ UNCHANGED xvars

\* Lines 229-243: clear the flag, clear the store, append every row.
UpdateStore_Body ==
    /\ mpc = "b_locked"
    /\ abort_pixbufs_update' = FALSE
    /\ store' = BuildRows(b_dir)
    /\ builds' = builds + 1
    /\ mpc' = "b_built"
    /\ UNCHANGED << directory_uri, parent_uris, visible_child, image_size, inits,
                    ongoing_store_update, cache, idle_queue, sent, b_dir, b_tail,
                    b_saw, tpc, t_force, t_size, t_iter >>
    /\ UNCHANGED xvars

\* Lines 229-243 when _build_store_item raises for row k+1: the flag and the
\* store are cleared and only the first k rows are appended.
UpdateStore_Raise(k) ==
    /\ mpc = "b_locked"
    /\ k < Len(BuildRows(b_dir))
    /\ abort_pixbufs_update' = FALSE
    /\ store' = SubSeq(BuildRows(b_dir), 1, k)
    /\ builds' = builds + 1
    /\ mpc' = "b_raised"
    /\ UNCHANGED << directory_uri, parent_uris, visible_child, image_size, inits,
                    ongoing_store_update, cache, idle_queue, sent, b_dir, b_tail,
                    b_saw, tpc, t_force, t_size, t_iter >>
    /\ UNCHANGED xvars

\* UpdateStore_End with the lock taken by acquire() and never released: the
\* run returns with the lock held.
UpdateStore_EndKeepsLock ==
    /\ BuildLocked /\ mpc # "b_locked"
    /\ sent' = sent
          \cup (IF mpc = "b_built" /\ HasImageUris(b_dir)
                THEN {"FETCH_ALBUM_IMAGES"} ELSE {})
          \cup (IF b_tail THEN {"BROWSE_DIRECTORY"} ELSE {})
    /\ visible_child' = IF b_tail THEN "directory_page" ELSE visible_child
    /\ b_dir' = NoDirectory
    /\ b_tail' = FALSE
    /\ b_saw' = 0
    /\ mpc' = "idle"
    /\ UNCHANGED << directory_uri, parent_uris, image_size, inits, store,
                    ongoing_store_update, abort_pixbufs_update, cache, idle_queue,
                    builds, tpc, t_force, t_size, t_iter >>
    /\ UNCHANGED xvars

\* The end of the with block (the lock is released on a normal exit and on an
\* exception alike), lines 245-251 after a normal exit, and the rest of
\* show_directory when the run was started by it: an exception raised in a
\* signal handler does not propagate to the code that set the property.
UpdateStore_End ==
    /\ BuildLocked /\ mpc # "b_locked"
    /\ ongoing_store_update' = FALSE
    /\ sent' = sent
          \cup (IF mpc = "b_built" /\ HasImageUris(b_dir)
                THEN {"FETCH_ALBUM_IMAGES"} ELSE {})
          \cup (IF b_tail THEN {"BROWSE_DIRECTORY"} ELSE {})
    /\ visible_child' = IF b_tail THEN "directory_page" ELSE visible_child
    /\ b_dir' = NoDirectory
    /\ b_tail' = FALSE
    /\ b_saw' = 0
    /\ mpc' = "idle"
    /\ UNCHANGED << directory_uri, parent_uris, image_size, inits, store,
                    abort_pixbufs_update, cache, idle_queue, builds, tpc, t_force,
                    t_size, t_iter >>
    /\ UNCHANGED xvars

\* ------------------------------------------- main thread: idle callbacks
\* update_pixbuf_at returning True: GLib keeps the callback and runs it
\* again.
update_pixbuf_at_again ==
    /\ mpc = "idle"
    /\ idle_queue # << >>
    /\ LET h == Head(idle_queue) IN
          store' = IF h.row \in 1..Len(store)
                   THEN [store EXCEPT ![h.row].pixbuf = h.pixbuf]
                   ELSE store
    /\ UNCHANGED << directory_uri, parent_uris, visible_child, image_size, inits,
                    ongoing_store_update, abort_pixbufs_update, cache, idle_queue,
                    sent, mpc, b_dir, b_tail, b_saw, builds, tpc, t_force, t_size,
                    t_iter >>
    /\ UNCHANGED xvars

\* update_pixbuf_at without the try statement: the exception get_iter raises
\* for a path that is not in the store leaves the callback.
RunOldestCallbackUncaught ==
    /\ mpc = "idle"
    /\ idle_queue # << >>
    /\ LET h == Head(idle_queue) IN
          /\ store' = IF h.row \in 1..Len(store)
                      THEN [store EXCEPT ![h.row].pixbuf = h.pixbuf]
                      ELSE store
          /\ mpc' = IF h.row \in 1..Len(store) THEN mpc ELSE "uncaught"
    /\ idle_queue' = Tail(idle_queue)
    /\ UNCHANGED << directory_uri, parent_uris, visible_child, image_size, inits,
                    ongoing_store_update, abort_pixbufs_update, cache, sent,
                    b_dir, b_tail, b_saw, builds, tpc, t_force, t_size, t_iter >>

\* update_pixbuf_at(path, pixbuf), lines 274-280, run by the main loop for the
\* oldest queued callback: set the row's pixbuf; get_iter raises for a path
\* that is not in the store, which is caught and logged.  Returning False
\* removes the callback.
RunOldestCallback ==
    /\ mpc = "idle"
    /\ idle_queue # << >>
    /\ LET h == Head(idle_queue) IN
          store' = IF h.row \in 1..Len(store)
                   THEN [store EXCEPT ![h.row].pixbuf = h.pixbuf]
                   ELSE store
    /\ idle_queue' = Tail(idle_queue)
    /\ UNCHANGED << directory_uri, parent_uris, visible_child, image_size, inits,
                    ongoing_store_update, abort_pixbufs_update, cache, sent, mpc,
                    b_dir, b_tail, b_saw, builds, tpc, t_force, t_size, t_iter >>

\* The callback run by the main loop, which touches nothing else.
update_pixbuf_at ==
    /\ RunOldestCallback
    /\ UNCHANGED xvars

\* ------------------------------------------ main thread: starting a pass
\* The thread _update_store_pixbufs starts, lines 256-262: the next unused one.
StartThread(force) ==
    /\ \E t \in Threads : tpc[t] = "unborn"
    /\ LET t == CHOOSE x \in Threads :
                    tpc[x] = "unborn" /\ \A y \in 1..(x - 1) : tpc[y] # "unborn"
       IN /\ tpc' = [tpc EXCEPT ![t] = "wait"]
          /\ t_force' = [t_force EXCEPT ![t] = force]

\* _update_store_pixbufs as the handler of images-downloaded: force is False.
UpdateStorePixbufs ==
    /\ mpc = "idle"
    /\ StartThread(FALSE)
    /\ UNCHANGED << directory_uri, parent_uris, visible_child, image_size, inits,
                    store, ongoing_store_update, abort_pixbufs_update, cache,
                    idle_queue, sent, mpc, b_dir, b_tail, b_saw, builds, t_size,
                    t_iter >>
    /\ UNCHANGED xvars

\* _on_image_size_changed raising the abort flag, to have the pass under way
\* stop before the forced one starts.
OnImageSizeChangedAborts(w) ==
    /\ mpc = "idle"
    /\ IF w = image_size
       THEN UNCHANGED vars
       ELSE /\ image_size' = w
            /\ inits' = inits + 1
            /\ abort_pixbufs_update' = ongoing_store_update
            /\ StartThread(TRUE)
            /\ UNCHANGED << directory_uri, parent_uris, visible_child, store,
                            ongoing_store_update, cache, idle_queue, sent, mpc,
                            b_dir, b_tail, b_saw, builds, t_size, t_iter >>
    /\ UNCHANGED xvars

\* _on_image_size_changed, lines 386-399, when the setting now reads w.
OnImageSizeChanged(w) ==
    /\ mpc = "idle"
    /\ IF w = image_size
       THEN UNCHANGED vars
       ELSE /\ image_size' = w
            /\ inits' = inits + 1
            /\ StartThread(TRUE)
            /\ UNCHANGED << directory_uri, parent_uris, visible_child, store,
                            ongoing_store_update, abort_pixbufs_update, cache,
                            idle_queue, sent, mpc, b_dir, b_tail, b_saw, builds,
                            t_size, t_iter >>
    /\ UNCHANGED xvars

\* --------------------------- worker thread: _start_store_pixbufs_update_task
\* scale_album_image(image_path, target_width=width) behind functools.lru_cache:
\* a key that holds a result returns it, whatever it is; otherwise the file is
\* decoded (ok says whether Pixbuf.new_from_file succeeds) and the result, the
\* scaled pixbuf or None, is what the function returns.
scale_album_image(image_path, width, ok) ==
    IF cached(cache, image_path, width) # Uncached
    THEN cached(cache, image_path, width)
    ELSE IF ok THEN ScaledPixbuf(image_path, width) ELSE NoPixbuf

\* lru_cache's bookkeeping were the decorator lru_cache(maxsize=1): only the
\* result of the last call is kept.
lru_cache_last_only(image_path, width, result) ==
    << [path |-> image_path, width |-> width, result |-> result] >>

\* The bookkeeping of functools.lru_cache around one call that returned
\* result: a hit moves the key to the most recently used end; a miss stores
\* the result, None included, and when the cache is full the least recently
\* used key is dropped first.
lru_cache(image_path, width, result) ==
    LET others == SelectSeq(cache, LAMBDA e :
                      ~(e.path = image_path /\ e.width = width))
        entry == [path |-> image_path, width |-> width, result |-> result]
    IN IF cached(cache, image_path, width) # Uncached
       THEN Append(others, entry)
       ELSE IF Len(cache) >= CacheMaxSize
            THEN Append(Tail(cache), entry)
            ELSE Append(cache, entry)

\* The callback GLib.idle_add queues: update_pixbuf_at with its two arguments.
\* epoch (the number of store rebuilds so far) is kept for the record; the
\* code does not read it.
Handoff(row, pixbuf) ==
    [row |-> row, pixbuf |-> pixbuf, epoch |-> builds]

\* Task_Acquire without the lock: the task as it would run were the with
\* statement of line 265 missing.
Task_AcquireUnlocked(t) ==
    /\ tpc[t] = "wait"
    /\ ongoing_store_update' = TRUE
    /\ tpc' = [tpc EXCEPT ![t] = "check"]
    /\ t_size' = [t_size EXCEPT ![t] = image_size]
    /\ t_iter' = [t_iter EXCEPT ![t] = 1]
    /\ UNCHANGED << directory_uri, parent_uris, visible_child, image_size, inits,
                    store, abort_pixbufs_update, cache, idle_queue, sent, mpc,
                    b_dir, b_tail, b_saw, builds, t_force >>
    /\ UNCHANGED xvars

\* Lines 265-282: the thread enters "with self._ongoing_store_update", reads
\* self.image_size and takes the first row.
Task_Acquire(t) ==
    /\ tpc[t] = "wait"
    /\ ~ongoing_store_update
    /\ ongoing_store_update' = TRUE
    /\ tpc' = [tpc EXCEPT ![t] = "check"]
    /\ t_size' = [t_size EXCEPT ![t] = image_size]
    /\ t_iter' = [t_iter EXCEPT ![t] = 1]
    /\ UNCHANGED << directory_uri, parent_uris, visible_child, image_size, inits,
                    store, abort_pixbufs_update, cache, idle_queue, sent, mpc,
                    b_dir, b_tail, b_saw, builds, t_force >>
    /\ UNCHANGED xvars

\* Task_Check without lines 284-286: the loop as it would run were the abort
\* flag never consulted.
Task_CheckNoAbort(t) ==
    /\ tpc[t] = "check"
    /\ IF t_iter[t] > Len(store)
       THEN /\ tpc' = [tpc EXCEPT ![t] = "completed"]
            /\ ongoing_store_update' = FALSE
       ELSE /\ tpc' = [tpc EXCEPT ![t] = "item"]
            /\ UNCHANGED ongoing_store_update
    /\ UNCHANGED << directory_uri, parent_uris, visible_child, image_size, inits,
                    store, abort_pixbufs_update, cache, idle_queue, sent, mpc,
                    b_dir, b_tail, b_saw, builds, t_force, t_size, t_iter >>
    /\ UNCHANGED xvars

\* Lines 283-286: the loop condition and the abort check.  Leaving the loop
\* leaves the with block, which releases the lock.
Task_Check(t) ==
    /\ tpc[t] = "check"
    /\ IF t_iter[t] > Len(store)
       THEN /\ tpc' = [tpc EXCEPT ![t] = "completed"]
            /\ ongoing_store_update' = FALSE
       ELSE IF abort_pixbufs_update
       THEN /\ tpc' = [tpc EXCEPT ![t] = "cancelled"]
            /\ ongoing_store_update' = FALSE
       ELSE /\ tpc' = [tpc EXCEPT ![t] = "item"]
            /\ UNCHANGED ongoing_store_update
    /\ UNCHANGED << directory_uri, parent_uris, visible_child, image_size, inits,
                    store, abort_pixbufs_update, cache, idle_queue, sent, mpc,
                    b_dir, b_tail, b_saw, builds, t_force, t_size, t_iter >>
    /\ UNCHANGED xvars

\* Task_Item without the test of line 301: the image of every row that has an
\* image file is scaled again, as if force were always set.
Task_ItemAlwaysScales(t, ok) ==
    /\ tpc[t] = "item"
    /\ LET row == store[t_iter[t]]
           default_image == default_images(row.type)
           scaled_pixbuf == scale_album_image(row.image_path, t_size[t], ok)
       IN IF row.type \in {ALBUM, TRACK}
          THEN IF row.image_path # ""
               THEN IF TRUE
                    THEN /\ cache' = lru_cache(row.image_path, t_size[t],
                                                scaled_pixbuf)
                         /\ idle_queue' = Append(idle_queue,
                                Handoff(t_iter[t], scaled_pixbuf))
                    ELSE UNCHANGED << cache, idle_queue >>
               ELSE /\ idle_queue' = Append(idle_queue,
                                Handoff(t_iter[t], default_image))
                    /\ UNCHANGED cache
          ELSE /\ idle_queue' = Append(idle_queue,
                                Handoff(t_iter[t], default_image))
               /\ UNCHANGED cache
    /\ t_iter' = [t_iter EXCEPT ![t] = t_iter[t] + 1]
    /\ tpc' = [tpc EXCEPT ![t] = "check"]
    /\ UNCHANGED << directory_uri, parent_uris, visible_child, image_size, inits,
                    store, ongoing_store_update, abort_pixbufs_update, sent, mpc,
                    b_dir, b_tail, b_saw, builds, t_force, t_size >>
    /\ UNCHANGED xvars

\* Lines 288-315 for the row at store_iter; ok is the outcome of decoding the
\* row's image file should scale_album_image have to decode it.
Task_Item(t, ok) ==
    /\ tpc[t] = "item"
    /\ LET row == store[t_iter[t]]
           default_image == default_images(row.type)
           scaled_pixbuf == scale_album_image(row.image_path, t_size[t], ok)
       IN IF row.type \in {ALBUM, TRACK}
          THEN IF row.image_path # ""
               THEN IF t_force[t] \/ row.pixbuf = default_image
                    THEN /\ cache' = lru_cache(row.image_path, t_size[t],
                                                scaled_pixbuf)
                         /\ idle_queue' = Append(idle_queue,
                                Handoff(t_iter[t], scaled_pixbuf))
                    ELSE UNCHANGED << cache, idle_queue >>
               ELSE /\ idle_queue' = Append(idle_queue,
                                Handoff(t_iter[t], default_image))
                    /\ UNCHANGED cache
          ELSE /\ idle_queue' = Append(idle_queue,
                                Handoff(t_iter[t], default_image))
               /\ UNCHANGED cache
    /\ t_iter' = [t_iter EXCEPT ![t] = t_iter[t] + 1]
    /\ tpc' = [tpc EXCEPT ![t] = "check"]
    /\ UNCHANGED << directory_uri, parent_uris, visible_child, image_size, inits,
                    store, ongoing_store_update, abort_pixbufs_update, sent, mpc,
                    b_dir, b_tail, b_saw, builds, t_force, t_size >>
    /\ UNCHANGED xvars

\* Task_Raise with the lock taken by acquire() and released only at the end of
\* the function: an exception then ends the thread with the lock held.
Task_RaiseKeepsLock(t) ==
    /\ tpc[t] = "item"
    /\ tpc' = [tpc EXCEPT ![t] = "raised"]
    /\ UNCHANGED << directory_uri, parent_uris, visible_child, image_size, inits,
                    store, ongoing_store_update, abort_pixbufs_update, cache,
                    idle_queue, sent, mpc, b_dir, b_tail, b_saw, builds, t_force,
                    t_size, t_iter >>
    /\ UNCHANGED xvars

\* Lines 288-315 raising for the row at store_iter (scale_album_image catches
\* GLib.Error only): the exception leaves the with block, which releases the
\* lock, and ends the thread.
Task_Raise(t) ==
    /\ tpc[t] = "item"
    /\ tpc' = [tpc EXCEPT ![t] = "raised"]
    /\ ongoing_store_update' = FALSE
    /\ UNCHANGED << directory_uri, parent_uris, visible_child, image_size, inits,
                    store, abort_pixbufs_update, cache, idle_queue, sent, mpc,
                    b_dir, b_tail, b_saw, builds, t_force, t_size, t_iter >>
    /\ UNCHANGED xvars

\* ----------------------------------------------------------- specification
MainThread ==
    \/ \E uri \in URIs \cup {NoUri}, found \in BOOLEAN, rootfound \in BOOLEAN :
          DirectoryCompleted(uri, found, rootfound)
    \/ UpdateStore_Acquire
    \/ UpdateStore_Body
    \/ \E k \in 0..1 : UpdateStore_Raise(k)
    \/ UpdateStore_End
    \/ update_pixbuf_at
    \/ UpdateStorePixbufs
    \/ \E w \in Widths : inits < MaxResizes /\ OnImageSizeChanged(w)

Worker(t) ==
    \/ Task_Acquire(t)
    \/ Task_Check(t)
    \/ \E ok \in BOOLEAN : Task_Item(t, ok)
    \/ Task_Raise(t)

Next == MainThread \/ \E t \in Threads : Worker(t)

Spec == Init /\ [][Next]_allvars

\* The threads are scheduled and the main loop keeps running: a step that can
\* be taken is not postponed for ever.
Fairness ==
    /\ WF_vars(UpdateStore_Acquire)
    /\ WF_vars(UpdateStore_Body \/ \E k \in 0..1 : UpdateStore_Raise(k))
    /\ WF_vars(UpdateStore_End)
    /\ \A t \in Threads :
          /\ WF_vars(Task_Acquire(t))
          /\ WF_vars(Task_Check(t))
          /\ WF_vars(Task_Raise(t) \/ \E ok \in BOOLEAN : Task_Item(t, ok))

FairSpec == Spec /\ Fairness

\* The two-resize scenario: the store holds the root directory's rows, as
\* after one run of _update_store, and the setting changes to 64, then to 128
\* while the pass started by the first change has not ended.  No store rebuild
\* and no other pass takes place.
InitResize ==
    /\ directory_uri = ""
    /\ parent_uris = << >>
    /\ visible_child = "directory_page"
    /\ image_size = 32
    /\ inits = 0
    /\ store = BuildRows(Library[""])
    /\ ongoing_store_update = FALSE
    /\ abort_pixbufs_update = FALSE
    /\ cache = << >>
    /\ idle_queue = << >>
    /\ sent = {"FETCH_ALBUM_IMAGES"}
    /\ mpc = "idle"
    /\ b_dir = NoDirectory
    /\ b_tail = FALSE
    /\ b_saw = 0
    /\ builds = 1
    /\ tpc = [t \in Threads |-> "unborn"]
    /\ t_force = [t \in Threads |-> FALSE]
    /\ t_size = [t \in Threads |-> 0]
    /\ t_iter = [t \in Threads |-> 0]
    /\ ExtrasInit

NextResize ==
    \/ inits = 0 /\ OnImageSizeChanged(64)
    \/ inits = 1 /\ ~TaskEnded(1) /\ OnImageSizeChanged(128)
    \/ update_pixbuf_at
    \/ \E t \in Threads : Worker(t)

SpecResize == InitResize /\ [][NextResize]_allvars

\* ------------------------------------------- signals, one at a time, on record
\* The window with each directory-completed signal it handles put on
\* record; the setting does not change and _build_store_item does not raise.
NextEvents ==
    \/ /\ \E uri \in URIs \cup {NoUri}, found \in BOOLEAN, rootfound \in BOOLEAN :
             /\ UpdateStore(uri, found, rootfound)
             /\ event' = [uri |-> uri, tick |-> 1 - event.tick]
       /\ UNCHANGED << readable, filtering_text, filter_arg, probe, command_id,
                       co, posted, requests, ops >>
    \/ UpdateStore_Acquire
    \/ UpdateStore_Body
    \/ UpdateStore_End
    \/ update_pixbuf_at
    \/ UpdateStorePixbufs
    \/ \E t \in Threads : Worker(t)

SpecEvents == Init /\ [][NextEvents]_allvars

\* ------------------------------------------------- populate passes alone
\* A directory with an album that has an image file, a directory, a playlist
\* and a track that has none.
MixedDirectory ==
    Directory(<< Rec("a1", "p1", TRUE) >>, << Rec("d1", "", FALSE) >>,
              << Rec("l1", "", FALSE) >>, << Rec("t1", "", FALSE) >>)

\* The window after one run of _update_store for MixedDirectory; whether the
\* image files can be decoded is fixed from the start.
InitPopulate ==
    /\ directory_uri = ""
    /\ parent_uris = << >>
    /\ visible_child = "directory_page"
    /\ image_size = 32
    /\ inits = 0
    /\ store = BuildRows(MixedDirectory)
    /\ ongoing_store_update = FALSE
    /\ abort_pixbufs_update = FALSE
    /\ cache = << >>
    /\ idle_queue = << >>
    /\ sent = {"FETCH_ALBUM_IMAGES"}
    /\ mpc = "idle"
    /\ b_dir = NoDirectory
    /\ b_tail = FALSE
    /\ b_saw = 0
    /\ builds = 1
    /\ tpc = [t \in Threads |-> "unborn"]
    /\ t_force = [t \in Threads |-> FALSE]
    /\ t_size = [t \in Threads |-> 0]
    /\ t_iter = [t \in Threads |-> 0]
    /\ event = [uri |-> "", tick |-> 0]
    /\ readable \in SUBSET Paths
    /\ filtering_text = None
    /\ filter_arg = None
    /\ probe = ProbeIdle
    /\ command_id = 0
    /\ co = [c \in Coroutines |-> CoIdle]
    /\ posted = << >>
    /\ requests = << >>
    /\ ops = << >>

\* Passes, forced by a change of the setting or not, and the idle callbacks;
\* the store is not rebuilt and a file decodes when it is readable.
NextPopulate ==
    \/ UpdateStorePixbufs
    \/ \E w \in Widths : inits < MaxResizes /\ OnImageSizeChanged(w)
    \/ update_pixbuf_at
    \/ \E t \in Threads : Task_Acquire(t)
    \/ \E t \in Threads : Task_Check(t)
    \/ \E t \in Threads, ok \in BOOLEAN :
          /\ Task_Item(t, ok)
          /\ ok <=> (store[t_iter[t]].image_path \in readable)

SpecPopulate == InitPopulate /\ [][NextPopulate]_allvars

\* ------------------------------------------- passes over a large directory
\* Image files of the albums of a large directory, all decodable.
AlbumPaths ==
    << "i001", "i002", "i003", "i004", "i005", "i006", "i007", "i008",
       "i009", "i010", "i011", "i012", "i013", "i014", "i015", "i016",
       "i017", "i018", "i019", "i020", "i021", "i022", "i023", "i024",
       "i025", "i026", "i027", "i028", "i029", "i030", "i031", "i032",
       "i033", "i034", "i035", "i036", "i037", "i038", "i039", "i040",
       "i041", "i042", "i043", "i044", "i045", "i046", "i047", "i048",
       "i049", "i050", "i051", "i052", "i053", "i054", "i055", "i056",
       "i057", "i058", "i059", "i060", "i061", "i062", "i063", "i064",
       "i065", "i066", "i067", "i068", "i069", "i070", "i071", "i072",
       "i073", "i074", "i075", "i076", "i077", "i078", "i079", "i080",
       "i081", "i082", "i083", "i084", "i085", "i086", "i087", "i088",
       "i089", "i090", "i091", "i092", "i093", "i094", "i095", "i096",
       "i097", "i098", "i099", "i100", "i101", "i102", "i103", "i104",
       "i105", "i106", "i107", "i108", "i109", "i110", "i111", "i112",
       "i113", "i114", "i115", "i116", "i117", "i118", "i119", "i120",
       "i121", "i122", "i123", "i124", "i125", "i126", "i127", "i128",
       "i129", "i130", "i131" >>

\* A directory of n albums, each with its own image file.
AlbumDirectory(n) ==
    Directory([i \in 1..n |-> Rec(AlbumPaths[i], AlbumPaths[i], TRUE)],
              << >>, << >>, << >>)

\* The window after one run of _update_store for a directory of MaxAlbums
\* albums, or of one album less.
InitAlbums ==
    /\ directory_uri = ""
    /\ parent_uris = << >>
    /\ visible_child = "directory_page"
    /\ image_size = 32
    /\ inits = 0
    /\ \E n \in {MaxAlbums - 1, MaxAlbums} : store = BuildRows(AlbumDirectory(n))
    /\ ongoing_store_update = FALSE
    /\ abort_pixbufs_update = FALSE
    /\ cache = << >>
    /\ idle_queue = << >>
    /\ sent = {"FETCH_ALBUM_IMAGES"}
    /\ mpc = "idle"
    /\ b_dir = NoDirectory
    /\ b_tail = FALSE
    /\ b_saw = 0
    /\ builds = 1
    /\ tpc = [t \in Threads |-> "unborn"]
    /\ t_force = [t \in Threads |-> FALSE]
    /\ t_size = [t \in Threads |-> 0]
    /\ t_iter = [t \in Threads |-> 0]
    /\ event = [uri |-> "", tick |-> 0]
    /\ readable = {AlbumPaths[i] : i \in 1..Len(AlbumPaths)}
    /\ filtering_text = None
    /\ filter_arg = None
    /\ probe = ProbeIdle
    /\ command_id = 0
    /\ co = [c \in Coroutines |-> CoIdle]
    /\ posted = << >>
    /\ requests = << >>
    /\ ops = << >>

\* Passes started by images-downloaded signals.  A signal arrives while a
\* pass is under way, or when the main loop has applied none or all of the
\* queued callbacks; the main loop applies callbacks while no pass is under
\* way.
NextAlbums ==
    \/ /\ \/ \E t \in Threads : tpc[t] \in {"wait", "check", "item"}
          \/ idle_queue = << >>
          \/ Len(idle_queue) = Len(store)
       /\ UpdateStorePixbufs
    \/ /\ \A t \in Threads : tpc[t] \notin {"wait", "check", "item"}
       /\ update_pixbuf_at
    \/ \E t \in Threads : Task_Acquire(t)
    \/ \E t \in Threads : Task_Check(t)
    \/ \E t \in Threads, ok \in BOOLEAN :
          /\ Task_Item(t, ok)
          /\ ok <=> (store[t_iter[t]].image_path \in readable)

SpecAlbums == InitAlbums /\ [][NextAlbums]_allvars

\* ------------------------------------------------------------ the filter
\* The characters of the texts: a letter in both cases, the blank and the
\* dot, which a regular expression reads as "any character".
Chars == {"a", "A", " ", "."}

\* The texts of at most n characters.
Texts(n) == UNION {[1..k -> Chars] : k \in 0..n}

\* str.lower() of one character.
lower(c) == IF c = "A" THEN "a" ELSE c

\* str.strip(): the text without its leading and trailing blanks.
RECURSIVE lstrip(_)
lstrip(text) ==
    IF text # << >> /\ Head(text) = " " THEN lstrip(Tail(text)) ELSE text

RECURSIVE rstrip(_)
rstrip(text) ==
    IF text # << >> /\ text[Len(text)] = " "
    THEN rstrip(SubSeq(text, 1, Len(text) - 1))
    ELSE text

strip(text) == rstrip(lstrip(text))

\* re.escape without effect: the text is used as the pattern as it is.
RECURSIVE re_escape_none(_)
re_escape_none(text) ==
    IF text = << >> THEN << >> ELSE << Head(text) >> \o re_escape_none(Tail(text))

\* re.escape(text): a backslash before every character that is not
\* alphanumeric.
RECURSIVE re_escape(_)
re_escape(text) ==
    IF text = << >>
    THEN << >>
    ELSE (IF Head(text) \in {"a", "A"}
          THEN << Head(text) >>
          ELSE << "\\", Head(text) >>) \o re_escape(Tail(text))

\* The atoms of a pattern made of plain characters, dots and escaped
\* characters: what each position of a match has to be.
RECURSIVE atoms(_)
atoms(pattern) ==
    IF pattern = << >>
    THEN << >>
    ELSE IF Head(pattern) = "\\" /\ Len(pattern) >= 2
    THEN << [any |-> FALSE, char |-> pattern[2]] >>
            \o atoms(SubSeq(pattern, 3, Len(pattern)))
    ELSE << [any |-> Head(pattern) = ".", char |-> Head(pattern)] >>
            \o atoms(Tail(pattern))

\* re.search(pattern, text, re.IGNORECASE) is not None.
re_search(pattern, text) ==
    LET a == atoms(pattern)
    IN \E i \in 0..(Len(text) - Len(a)) :
          \A k \in 1..Len(a) :
              a[k].any \/ lower(a[k].char) = lower(text[i + k])

\* _filter_row, lines 192-209, for one row of the store.
filter_row(row) ==
    IF filtering_text = None \/ filtering_text = << >>
    THEN TRUE
    ELSE \/ re_search(re_escape(filtering_text), row.filter_text)
         \/ re_search(re_escape(filtering_text), row.filter_text_secondary)

\* The rows filtered_directory_store shows: those its visible function
\* accepts, in the order of the store.
filtered_directory_store == SelectSeq(store, filter_row)

\* A thread is started as well: set_filtering_text as it would be were it to
\* call _update_store_pixbufs after refiltering.
set_filtering_text_populates(text) ==
    /\ filter_arg' = text
    /\ filtering_text' = strip(text)
    /\ StartThread(FALSE)
    /\ UNCHANGED << directory_uri, parent_uris, visible_child, image_size, inits,
                    store, ongoing_store_update, abort_pixbufs_update, cache,
                    idle_queue, sent, mpc, b_dir, b_tail, b_saw, builds, t_size,
                    t_iter >>
    /\ UNCHANGED << event, readable, probe, command_id, co, posted,
                    requests, ops >>

\* set_filtering_text(text), lines 184-190.
set_filtering_text(text) ==
    /\ filter_arg' = text
    /\ filtering_text' =
          IF strip(text) # filtering_text THEN strip(text) ELSE filtering_text
    /\ UNCHANGED vars
    /\ UNCHANGED << event, readable, probe, command_id, co, posted,
                    requests, ops >>

\* The names and artist names of the records behind the filtered store.
Names == {<< "a" >>, << "A", " ", "a" >>, << "." >>, << " ", "A" >>}

\* The window after one run of _update_store for a directory of one album
\* and one track.
InitFilter ==
    /\ directory_uri = ""
    /\ parent_uris = << >>
    /\ visible_child = "directory_page"
    /\ image_size = 32
    /\ inits = 0
    /\ \E name \in Names, artist_name \in Names \cup {None}, track \in Names :
          store = BuildRows(Directory(
                      << NamedRec("a1", name, artist_name) >>, << >>, << >>,
                      << NamedRec("t1", track, None) >>))
    /\ ongoing_store_update = FALSE
    /\ abort_pixbufs_update = FALSE
    /\ cache = << >>
    /\ idle_queue = << >>
    /\ sent = {}
    /\ mpc = "idle"
    /\ b_dir = NoDirectory
    /\ b_tail = FALSE
    /\ b_saw = 0
    /\ builds = 1
    /\ tpc = [t \in Threads |-> "unborn"]
    /\ t_force = [t \in Threads |-> FALSE]
    /\ t_size = [t \in Threads |-> 0]
    /\ t_iter = [t \in Threads |-> 0]
    /\ ExtrasInit

NextFilter == \E text \in Texts(MaxTextLen) : set_filtering_text(text)

SpecFilter == InitFilter /\ [][NextFilter]_allvars

\* The filter text set while passes run: the populate passes of SpecPopulate
\* with set_filtering_text called at any moment.
NextFiltering ==
    \/ NextPopulate
    \/ \E text \in Texts(1) : set_filtering_text(text)

SpecFiltering == InitPopulate /\ [][NextFiltering]_allvars

\* ------------------------------------------------ scale_album_image alone
\* The target_width of the watched key; the other keys have the same file
\* and the widths that follow.
WatchedWidth == 32

\* One sequential call scale_album_image("p1", target_width=width) and what
\* it leaves in the cache; the file is decoded when the key holds no result.
ScaleAlbumImage(width, ok) ==
    LET ret == scale_album_image("p1", width, ok)
        decoded == cached(cache, "p1", width) = Uncached
        watched == width = WatchedWidth
    IN /\ cache' = lru_cache("p1", width, ret)
       /\ probe' =
             [others |-> IF watched THEN probe.others ELSE probe.others + 1,
              since |-> IF watched THEN 0 ELSE probe.since + 1,
              held |-> probe.held \/ (watched /\ decoded /\ ret # NoPixbuf),
              last |-> IF ~watched THEN probe.last
                       ELSE IF ret = NoPixbuf THEN "none" ELSE "image",
              width |-> width, ok |-> ok, ret |-> ret, decoded |-> decoded]
       /\ UNCHANGED << directory_uri, parent_uris, visible_child, image_size,
                       inits, store, ongoing_store_update, abort_pixbufs_update,
                       idle_queue, sent, mpc, b_dir, b_tail, b_saw, builds, tpc,
                       t_force, t_size, t_iter >>
       /\ UNCHANGED << event, readable, filtering_text, filter_arg, command_id,
                       co, posted, requests, ops >>

\* Calls with the watched key, whose file may or may not be decodable at the
\* time, among calls with keys not requested before, whose decode succeeds.
NextCache ==
    \/ \E ok \in BOOLEAN : ScaleAlbumImage(WatchedWidth, ok)
    \/ /\ probe.others < MaxOtherKeys
       /\ ScaleAlbumImage(WatchedWidth + probe.others + 1, TRUE)

SpecCache == Init /\ [][NextCache]_allvars

\* ------------------------------------------------------ the HTTP client
\* What _send_command returns: "absent" is None (a transport failure caught
\* at line 141, or a response without "result"), "empty" an empty list or
\* dict, or a list of playlists without the favorite one, and "some" a
\* result that holds what the caller looks for.
Results == {"absent", "empty", "some"}

\* A counter kept by each client object: the id is one more than the number
\* of requests client k has built.
command_id_per_client(k) ==
    1 + Cardinality({i \in 1..Len(requests) : requests[i].client = k})

\* Lines 16 and 124-128: the module's counter, incremented, is the id of the
\* request a coroutine of client k builds.
next_command_id(k) == command_id + 1

\* _send_command up to its first await, lines 124-133: the counter is
\* incremented and the request data built with the new id.
SendCommand(c, method) ==
    /\ command_id' = next_command_id(co[c].client)
    /\ co' = [co EXCEPT ![c].pc = method, ![c].id = next_command_id(co[c].client),
                        ![c].phase = "session"]
    /\ requests' = Append(requests, [id |-> next_command_id(co[c].client),
                                     client |-> co[c].client])

\* The coroutine ends: it returns ret, or raises err.
Return(c, ret) ==
    /\ co' = [co EXCEPT ![c].pc = "returned", ![c].phase = "", ![c].ret = ret]
    /\ UNCHANGED << command_id, requests >>

Throw(c, err) ==
    /\ co' = [co EXCEPT ![c].pc = "raised", ![c].phase = "", ![c].err = err]
    /\ UNCHANGED << command_id, requests >>

\* The first command of a client operation.
FirstCommand(op) ==
    CASE op = "play_random_album" -> "browse"
      [] op = "play_favorite_playlist" -> "as_list"
      [] op = "get_images" -> "get_images"

\* Operation op of client object k is called and runs up to the first await
\* of its first command.
Call(c, k, op) ==
    /\ co[c].pc = "idle"
    /\ LET id == next_command_id(k) IN
          /\ command_id' = id
          /\ co' = [co EXCEPT ![c].client = k, ![c].op = op,
                              ![c].pc = FirstCommand(op), ![c].id = id,
                              ![c].phase = "session"]
          /\ requests' = Append(requests, [id |-> id, client |-> k])
    /\ UNCHANGED posted
    /\ UNCHANGED vars
    /\ UNCHANGED << event, readable, filtering_text, filter_arg, probe, ops >>

\* Line 136: the request is posted.
Post(c) ==
    /\ co[c].phase = "session"
    /\ co' = [co EXCEPT ![c].phase = "posted"]
    /\ posted' = Append(posted, co[c].id)
    /\ UNCHANGED << command_id, requests >>
    /\ UNCHANGED vars
    /\ UNCHANGED << event, readable, filtering_text, filter_arg, probe, ops >>

\* play_favorite_playlist, lines 72-92, resumed with the result r of the
\* command it awaits.
ResumeFavorite(c, r) ==
    CASE co[c].pc = "as_list" ->
            IF r = "some" THEN SendCommand(c, "get_items") ELSE Return(c, "None")
      [] co[c].pc = "get_items" ->
            /\ command_id' = next_command_id(co[c].client)
            /\ co' = [co EXCEPT ![c].pc = "clear",
                                ![c].id = next_command_id(co[c].client),
                                ![c].phase = "session", ![c].refs = r]
            /\ requests' = Append(requests, [id |-> next_command_id(co[c].client),
                                             client |-> co[c].client])
      [] co[c].pc = "clear" ->
            IF co[c].refs = "absent"
            THEN Throw(c, "TypeError")
            ELSE SendCommand(c, "add")
      [] co[c].pc = "add" ->
            IF r = "absent" THEN Throw(c, "TypeError")
            ELSE IF r = "empty" THEN Throw(c, "IndexError")
            ELSE SendCommand(c, "play")
      [] co[c].pc = "play" -> Return(c, "None")

\* play_random_album, lines 55-69, resumed with the result r.
ResumeRandom(c, r) ==
    CASE co[c].pc = "browse" ->
            IF r = "absent" THEN Return(c, "None")
            ELSE IF r = "empty" THEN Throw(c, "IndexError")
            ELSE SendCommand(c, "clear")
      [] co[c].pc = "clear" -> SendCommand(c, "add")
      [] co[c].pc = "add" -> SendCommand(c, "play")
      [] co[c].pc = "play" -> Return(c, "None")

\* get_images, lines 117-120, resumed with the result r: images and
\* images[uri].
ResumeImages(c, r) ==
    Return(c, IF r = "absent" THEN "None" ELSE IF r = "empty" THEN "empty"
              ELSE "images")

\* Lines 137-142: the posted command of coroutine c ends with result r and
\* the operation runs on to its next await or to its end.
Resume(c, r) ==
    /\ co[c].phase = "posted"
    /\ CASE co[c].op = "play_random_album" -> ResumeRandom(c, r)
         [] co[c].op = "play_favorite_playlist" -> ResumeFavorite(c, r)
         [] co[c].op = "get_images" -> ResumeImages(c, r)
    /\ UNCHANGED posted
    /\ UNCHANGED vars
    /\ UNCHANGED << event, readable, filtering_text, filter_arg, probe, ops >>

\* The operations of the application's client object, interleaved at their
\* awaits in any order.
NextHttp ==
    \E c \in Coroutines :
        \/ \E op \in {"play_random_album", "play_favorite_playlist",
                       "get_images"} : Call(c, 1, op)
        \/ Post(c)
        \/ \E r \in Results : Resume(c, r)

SpecHttp == Init /\ [][NextHttp]_allvars

\* The operations of one and of several commands called on any of several
\* client objects.
NextIds ==
    \E c \in Coroutines :
        \/ \E k \in Clients, op \in {"play_random_album", "get_images"} :
              Call(c, k, op)
        \/ Post(c)
        \/ \E r \in Results : Resume(c, r)

SpecIds == Init /\ [][NextIds]_allvars

\* ------------------------------------------------ the store builder alone
\* The sequences of at most n distinct members of S.
Arrangements(S, n) ==
    UNION {{q \in [1..k -> S] : \A i, j \in 1..k : i # j => q[i] # q[j]} :
              k \in 0..n}

\* The directories get_directory may return: up to MaxGroup records of each
\* kind, in any order.
Directories ==
    {Directory(a, d, p, t) :
        a \in Arrangements({Rec("a1", "p1", TRUE), Rec("a2", "", FALSE),
                            Rec("a3", "p1", TRUE)}, MaxGroup),
        d \in Arrangements({Rec("d1", "", FALSE), Rec("d2", "", FALSE)},
                           MaxGroup),
        p \in Arrangements({Rec("l1", "", FALSE), Rec("l2", "", FALSE)},
                           MaxGroup),
        t \in Arrangements({Rec("t1", "", FALSE), Rec("t2", "p1", TRUE),
                            Rec("t3", "", TRUE)}, MaxGroup)}

\* _update_store at line 229, for the current location: the lock was free
\* and is now held by the main thread, directory is what get_directory
\* returned.
InitBuild ==
    /\ directory_uri = ""
    /\ parent_uris = << >>
    /\ visible_child = "directory_page"
    /\ image_size = 32
    /\ inits = 0
    /\ store = << >>
    /\ ongoing_store_update = TRUE
    /\ abort_pixbufs_update = FALSE
    /\ cache = << >>
    /\ idle_queue = << >>
    /\ sent = {}
    /\ mpc = "b_locked"
    /\ b_dir \in Directories
    /\ b_tail = FALSE
    /\ b_saw = 0
    /\ builds = 0
    /\ tpc = [t \in Threads |-> "unborn"]
    /\ t_force = [t \in Threads |-> FALSE]
    /\ t_size = [t \in Threads |-> 0]
    /\ t_iter = [t \in Threads |-> 0]
    /\ ExtrasInit

NextBuild == UpdateStore_Body \/ UpdateStore_End

SpecBuild == InitBuild /\ [][NextBuild]_allvars

\* ------------------------------------------------------------ navigation
\* show_directory(u, history=history) called from outside _update_store.
show_directory(u, history, found, rootfound) ==
    /\ mpc = "idle"
    /\ ApplyRun(show_directory_run(RunStart, u, history,
                                   Loaded(u, found, rootfound)))

\* goto_parent_state, lines 341-351; found and rootfound are what
\* get_directory answers for the location popped and for the root.
goto_parent_state(found, rootfound) ==
    /\ mpc = "idle"
    /\ IF visible_child = "directory_page"
       THEN IF directory_uri = ""
            THEN UNCHANGED vars
            ELSE IF Len(parent_uris) > 0
            THEN LET top == parent_uris[Len(parent_uris)]
                     popped == SubSeq(parent_uris, 1, Len(parent_uris) - 1)
                 IN ApplyRun(show_directory_run(
                                [RunStart EXCEPT !.parent_uris = popped],
                                top, FALSE, Loaded(top, found, rootfound)))
            ELSE UNCHANGED vars
       ELSE /\ visible_child' = "directory_page"
            /\ UNCHANGED << directory_uri, parent_uris, image_size, inits,
                            store, ongoing_store_update, abort_pixbufs_update,
                            cache, idle_queue, sent, mpc, b_dir, b_tail, b_saw,
                            builds, tpc, t_force, t_size, t_iter >>

\* directory_view_item_activated_cb, lines 354-384, for the i-th row shown;
\* sensitive says that the network is available and the server connected.
\* The uri given to the album details box is state of that box.
directory_view_item_activated_cb(i, sensitive, found, rootfound) ==
    /\ mpc = "idle"
    /\ i \in 1..Len(filtered_directory_store)
    /\ LET row == filtered_directory_store[i] IN
          IF ~sensitive \/ row.type = PLAYLIST
          THEN UNCHANGED vars
          ELSE IF row.type = DIRECTORY
          THEN ApplyRun(show_directory_run(RunStart, row.uri, TRUE,
                                           Loaded(row.uri, found, rootfound)))
          ELSE /\ sent' = sent \cup {IF row.type = ALBUM
                                     THEN "COMPLETE_ALBUM_DESCRIPTION"
                                     ELSE "PLAY_TRACKS"}
               /\ visible_child' = IF row.type = ALBUM
                                   THEN "album_details_page"
                                   ELSE visible_child
               /\ UNCHANGED << directory_uri, parent_uris, image_size, inits,
                               store, ongoing_store_update,
                               abort_pixbufs_update, cache, idle_queue, mpc,
                               b_dir, b_tail, b_saw, builds, tpc, t_force,
                               t_size, t_iter >>

\* The record of a handler run: n tells successive runs apart, op names the
\* handler, before is directory_uri and visible the page shown when it was
\* called, u and history are show_directory's arguments (u the signal's uri
\* for _update_store), found what get_directory answered for the location
\* looked up first, handled whether _update_store went past line 213, shown, calls and overflow
\* are those of the run, row is the row position of the callback run and
\* rows the length of the store at that time.
NoRun ==
    [n |-> 0, op |-> "none", before |-> NoUri, visible |-> FALSE, u |-> NoUri,
     history |-> FALSE, found |-> FALSE, handled |-> FALSE, shown |-> 0, calls |-> 0, overflow |-> FALSE,
     row |-> 0, rows |-> 0]

\* The run just made is put on record and nothing else is.
Recorded(run) ==
    /\ ops' = << [run EXCEPT !.n = IF ops = << >> THEN 1 ELSE 1 - ops[1].n,
                             !.before = directory_uri,
                             !.visible = (visible_child = "directory_page")] >>
              \o (IF ops = << >> THEN << >> ELSE << ops[1] >>)
    /\ UNCHANGED << event, readable, filtering_text, filter_arg, probe,
                    command_id, co, posted, requests >>

\* Signals of the model and navigation, each handler run of the main thread
\* put on record; no pass is started and _build_store_item does not raise.
NextNav ==
    \/ \E uri \in Locations \cup {NoUri}, found \in BOOLEAN,
          rootfound \in BOOLEAN :
          /\ UpdateStore(uri, found, rootfound)
          /\ LET handled == uri = NoUri \/ uri = directory_uri
                 r == IF handled
                      THEN update_store_run(
                               RunStart, Loaded(directory_uri, found, rootfound))
                      ELSE RunStart
             IN Recorded([NoRun EXCEPT !.op = "update_store", !.u = uri,
                                       !.found = found,
                                       !.handled = handled,
                                       !.shown = r.shown, !.calls = r.calls,
                                       !.overflow = r.overflow])
    \/ \E u \in Locations, found \in BOOLEAN, rootfound \in BOOLEAN :
          /\ show_directory(u, TRUE, found, rootfound)
          /\ LET r == show_directory_run(RunStart, u, TRUE,
                                         Loaded(u, found, rootfound))
             IN Recorded([NoRun EXCEPT !.op = "show_directory", !.u = u,
                                       !.history = TRUE, !.found = found,
                                       !.shown = r.shown, !.calls = r.calls,
                                       !.overflow = r.overflow])
    \/ \E found \in BOOLEAN, rootfound \in BOOLEAN :
          /\ goto_parent_state(found, rootfound)
          /\ Recorded([NoRun EXCEPT !.op = "goto_parent_state",
                                    !.found = found])
    \/ \E i \in 1..2, sensitive \in BOOLEAN, found \in BOOLEAN :
          /\ directory_view_item_activated_cb(i, sensitive, found, TRUE)
          /\ Recorded([NoRun EXCEPT !.op = "item_activated"])
    \/ UpdateStore_Acquire
    \/ UpdateStore_Body
    \/ UpdateStore_End

SpecNav == Init /\ [][NextNav]_allvars

\* ------------------------------------------- callbacks after a rebuild
\* The window showing the root location, whose directory is loaded, after
\* one run of _update_store.
InitHandoff ==
    /\ directory_uri = ""
    /\ parent_uris = << >>
    /\ visible_child = "directory_page"
    /\ image_size = 32
    /\ inits = 0
    /\ store = BuildRows(Library[""])
    /\ ongoing_store_update = FALSE
    /\ abort_pixbufs_update = FALSE
    /\ cache = << >>
    /\ idle_queue = << >>
    /\ sent = {"FETCH_ALBUM_IMAGES"}
    /\ mpc = "idle"
    /\ b_dir = NoDirectory
    /\ b_tail = FALSE
    /\ b_saw = 0
    /\ builds = 1
    /\ tpc = [t \in Threads |-> "unborn"]
    /\ t_force = [t \in Threads |-> FALSE]
    /\ t_size = [t \in Threads |-> 0]
    /\ t_iter = [t \in Threads |-> 0]
    /\ ExtrasInit

\* Passes and their callbacks, each callback run put on record, while the
\* user activates rows and goes back, which rebuilds the store for another
\* location.
NextHandoff ==
    \/ /\ RunOldestCallback
       /\ Recorded([NoRun EXCEPT !.op = "update_pixbuf_at",
                                 !.row = Head(idle_queue).row,
                                 !.rows = Len(store)])
    \/ UpdateStorePixbufs
    \/ \E t \in Threads :
          \/ Task_Acquire(t)
          \/ Task_Check(t)
          \/ \E ok \in BOOLEAN : Task_Item(t, ok)
    \/ \E i \in 1..2, found \in BOOLEAN :
          /\ directory_view_item_activated_cb(i, TRUE, found, TRUE)
          /\ UNCHANGED xvars
    \/ \E found \in BOOLEAN :
          /\ goto_parent_state(found, TRUE)
          /\ UNCHANGED xvars
    \/ UpdateStore_Acquire
    \/ UpdateStore_Body
    \/ UpdateStore_End

SpecHandoff == InitHandoff /\ [][NextHandoff]_allvars

\* ------------------------------------------------------------------ claims

\* C1: at every instant at most one pass is inside its locked section, be it
\* a run of _update_store or a populate task.
C1_AtMostOneHolder ==
    Cardinality({t \in Threads : TaskLocked(t)})
        + (IF BuildLocked THEN 1 ELSE 0) <= 1

\* C1 witness: a populate task holds the lock while another task and a run of
\* _update_store both wait for it.
C1_Witness ==
    \E t, u \in Threads :
        t # u /\ TaskLocked(t) /\ tpc[u] = "wait" /\ mpc = "b_wait"

\* C2: an image assignment queued before the store was rebuilt never changes
\* a row of the rebuilt store.
C2_NoStaleAssignment ==
    [][(/\ mpc = "idle"
        /\ idle_queue # << >>
        /\ idle_queue' = Tail(idle_queue)
        /\ Head(idle_queue).epoch < builds) => store' = store]_vars

\* C3: a run of _update_store never waits for the lock a populate task holds
\* with the abort flag down.
C3_WaitingBuildHasRaisedFlag ==
    (mpc = "b_wait" /\ \E t \in Threads : TaskLocked(t)) => abort_pixbufs_update

\* C4: a populate task that held the lock when _update_store looked at it
\* starts no further row, and _update_store is inside its locked section only
\* once that task has ended.
C4_PreemptedPassStops ==
    /\ [](\A t \in Threads : (b_saw = t /\ BuildLocked) => TaskEnded(t))
    /\ [][\A t \in Threads :
            (b_saw = t /\ tpc[t] = "check") => tpc'[t] # "item"]_vars

\* C4 witness: the task seen holding the lock was cancelled with rows left and
\* the store has since been rebuilt.
C4_Witness ==
    /\ mpc = "b_built"
    /\ b_saw # 0
    /\ tpc[b_saw] = "cancelled"

\* C5, as claimed: every grant of the lock, to a populate task as well, leaves
\* the abort flag down.
C5_ClearedAtEveryGrant ==
    [][\A t \in Threads :
          (tpc[t] = "wait" /\ tpc'[t] = "check") => ~abort_pixbufs_update']_vars

\* C5, amended: the abort flag is cleared by _update_store at the start of its
\* locked section and nowhere else; a grant of the lock to a populate task
\* leaves the flag as it is.
C5_ClearedByBuildOnly ==
    [][/\ (mpc = "b_locked" /\ mpc' # "b_locked") => ~abort_pixbufs_update'
       /\ (abort_pixbufs_update /\ ~abort_pixbufs_update') => mpc = "b_locked"
       /\ \A t \in Threads :
             (tpc[t] = "wait" /\ tpc'[t] = "check")
                => abort_pixbufs_update' = abort_pixbufs_update]_vars

\* C5 witness: a task granted the lock with the flag up stopped at its first
\* check, and the run of _update_store that had raised the flag then cleared
\* it.
C5_Witness ==
    /\ mpc = "b_built"
    /\ b_saw # 0
    /\ ~abort_pixbufs_update
    /\ \E t \in Threads : t # b_saw /\ tpc[t] = "cancelled" /\ t_iter[t] = 1

\* C6: every row of the store has an image.
C6_ImageNeverNull ==
    \A i \in 1..Len(store) : store[i].pixbuf # NoPixbuf

\* C7: when scale_album_image yields None for a row, no assignment for that
\* row is queued.
C7_NoAssignmentOnDecodeFailure ==
    [][\A t \in Threads :
          (/\ tpc[t] = "item"
           /\ tpc'[t] = "check"
           /\ store[t_iter[t]].image_path # ""
           /\ cached(cache', store[t_iter[t]].image_path, t_size[t]) = NoPixbuf)
             => idle_queue' = idle_queue]_vars

\* C8: with no pass inside its locked section the lock is free, however the
\* passes before ended.
C8_LockFreeAfterPass ==
    (~BuildLocked /\ \A t \in Threads : ~TaskLocked(t)) => ~ongoing_store_update

\* C8 witness: a task ended with an exception and a later task holds the lock.
C8_Witness ==
    \E t, u \in Threads : tpc[t] = "raised" /\ TaskLocked(u)

\* C9: a populate task that waits for the lock eventually ends, and a run of
\* _update_store that waits for it eventually returns.
C9_NoRequestWaitsForever ==
    /\ \A t \in Threads : (tpc[t] = "wait") ~> TaskEnded(t)
    /\ (mpc = "b_wait") ~> (mpc = "idle")

\* C9 witness: every task has ended and every run of _update_store has
\* returned, after they contended for the lock.
C9_Witness ==
    /\ mpc = "idle"
    /\ builds = MaxBuilds
    /\ \A t \in Threads : TaskEnded(t)

\* C10: the two passes never overlap, and once both have run to the end of
\* the store and their assignments are applied every row's image has width
\* 128.
C10_AllRowsWidth128 ==
    /\ ~(TaskLocked(1) /\ TaskLocked(2))
    /\ (/\ inits = 2
        /\ tpc[1] = "completed"
        /\ tpc[2] = "completed"
        /\ idle_queue = << >>)
          => \A i \in 1..Len(store) : store[i].pixbuf.width = 128


\* C11: when _update_store has filled the store for a directory, the rows are
\* the directory's albums, then its directories, then its playlists, then its
\* tracks, each group in the order of the input, one row per record, and
\* every row holds the placeholder of its kind.
C11_RowsGroupedByKind ==
    mpc = "b_built" =>
        LET na == Len(b_dir.albums)
            nd == Len(b_dir.directories)
            np == Len(b_dir.playlists)
            nt == Len(b_dir.tracks)
        IN /\ Len(store) = na + nd + np + nt
           /\ \A i \in 1..na :
                 /\ store[i].uri = b_dir.albums[i].uri
                 /\ store[i].type = ALBUM
           /\ \A i \in 1..nd :
                 /\ store[na + i].uri = b_dir.directories[i].uri
                 /\ store[na + i].type = DIRECTORY
           /\ \A i \in 1..np :
                 /\ store[na + nd + i].uri = b_dir.playlists[i].uri
                 /\ store[na + nd + i].type = PLAYLIST
           /\ \A i \in 1..nt :
                 /\ store[na + nd + np + i].uri = b_dir.tracks[i].uri
                 /\ store[na + nd + np + i].type = TRACK
           /\ \A i \in 1..Len(store) :
                 store[i].pixbuf = DefaultPixbuf(store[i].type, image_size, inits)

C11_Witness ==
    /\ mpc = "b_built"
    /\ Len(b_dir.albums) = 2
    /\ Len(b_dir.directories) = 2
    /\ Len(b_dir.playlists) = 1
    /\ Len(b_dir.tracks) = 2
    /\ Len(store) = 7


\* C12: a directory-completed signal that names a location other than the
\* current one changes nothing: the store, the flag, the lock, the current
\* location, the messages sent and the threads all stay as they were.
C12_OtherLocationIgnored ==
    [][(event' # event /\ event'.uri \notin {NoUri, directory_uri})
          => UNCHANGED vars]_allvars

C12_Witness ==
    /\ event.uri \notin {NoUri, directory_uri}
    /\ store # << >>
    /\ \E t \in Threads : TaskLocked(t)


\* C13: once a pass has completed without being cancelled and the queued
\* assignments have been applied, every album or track row whose image file
\* can be decoded holds a scaled image, and every row with no image file,
\* and every directory or playlist row, holds the placeholder of its kind.
C13_CompletedPassResolvesImages ==
    (/\ \E t \in Threads : tpc[t] = "completed"
     /\ \A t \in Threads : ~TaskLocked(t)
     /\ idle_queue = << >>)
        => \A i \in 1..Len(store) :
              IF store[i].type \in {ALBUM, TRACK} /\ store[i].image_path # ""
              THEN store[i].image_path \in readable
                      => store[i].pixbuf.tag = "scaled"
              ELSE /\ store[i].pixbuf.tag = "default"
                   /\ store[i].pixbuf.kind = store[i].type


\* An earlier pass has decoded the image of row i: the scaled image is in the
\* row or in a queued assignment for the row.
DecodedBefore(i) ==
    \/ store[i].pixbuf.tag = "scaled"
    \/ \E k \in 1..Len(idle_queue) :
          idle_queue[k].row = i /\ idle_queue[k].pixbuf.tag = "scaled"

\* The image an earlier pass has decoded for row i.
FirstDecoded(i) ==
    IF store[i].pixbuf.tag = "scaled"
    THEN store[i].pixbuf
    ELSE idle_queue[CHOOSE k \in 1..Len(idle_queue) :
             idle_queue[k].row = i /\ idle_queue[k].pixbuf.tag = "scaled"].pixbuf

\* Thread t's step for its row neither decodes the row's file (the cache
\* gains no result for the row's key) nor queues another image for the row
\* than the one decoded before.
NoDecodeImageKept(t) ==
    LET i == t_iter[t]
        image_path == store[i].image_path
    IN /\ ~(/\ cached(cache, image_path, t_size[t]) = Uncached
            /\ cached(cache', image_path, t_size[t]) # Uncached)
       /\ \/ idle_queue' = idle_queue
          \/ idle_queue'[Len(idle_queue')].pixbuf = FirstDecoded(i)

\* C14 as stated: a pass with force=False that comes to a row whose image an
\* earlier pass has decoded does not decode it again and leaves the image as
\* it is, whether the earlier assignment has been applied or not.
C14_SecondPassNoDecode ==
    [][\A t \in Threads :
          (/\ tpc[t] = "item"
           /\ tpc'[t] = "check"
           /\ ~t_force[t]
           /\ DecodedBefore(t_iter[t]))
             => NoDecodeImageKept(t)]_allvars

\* C14: a pass with force=False that comes to a row whose image an earlier
\* pass has decoded does not decode it again and leaves the image as it is,
\* when the earlier assignment has been applied or the store has no more
\* rows than the cache has places.
C14_SecondPassNoDecodeWhileCached ==
    [][\A t \in Threads :
          (/\ tpc[t] = "item"
           /\ tpc'[t] = "check"
           /\ ~t_force[t]
           /\ DecodedBefore(t_iter[t])
           /\ \/ store[t_iter[t]].pixbuf.tag = "scaled"
              \/ Len(store) <= CacheMaxSize)
             => NoDecodeImageKept(t)]_allvars

C14_Witness ==
    /\ Len(store) <= CacheMaxSize
    /\ tpc[1] = "completed"
    /\ tpc[2] = "check"
    /\ ~t_force[2]
    /\ t_iter[2] = 2
    /\ store[1].pixbuf.tag = "default"
    /\ Len(idle_queue) = Len(store) + 1
    /\ idle_queue[Len(idle_queue)] = idle_queue[1]
    /\ idle_queue[1].pixbuf.tag = "scaled"


\* The text without the blanks before its first and after its last
\* character that is not a blank.
Trimmed(t) ==
    LET solid == {i \in 1..Len(t) : t[i] # " "}
    IN IF solid = {}
       THEN << >>
       ELSE SubSeq(t, CHOOSE i \in solid : \A j \in solid : i <= j,
                      CHOOSE i \in solid : \A j \in solid : i >= j)

\* t occurs in text, letter case set aside.
Contains(text, t) ==
    \E i \in 0..(Len(text) - Len(t)) :
        \A k \in 1..Len(t) :
            (IF text[i + k] = "A" THEN "a" ELSE text[i + k])
                = (IF t[k] = "A" THEN "a" ELSE t[k])

\* The rows that contain t in one of their two filter texts, in the order
\* of the store; all rows when t is empty.
RowsContaining(t) ==
    SelectSeq(store, LAMBDA row :
        \/ t = << >>
        \/ Contains(row.filter_text, t)
        \/ Contains(row.filter_text_secondary, t))

\* C15 as stated: after set_filtering_text(t) the visible rows are exactly
\* the rows that contain t, blanks at its ends included, letter case set
\* aside, in the order of the store.
C15_VisibleRowsContainText ==
    filter_arg # None => filtered_directory_store = RowsContaining(filter_arg)

\* C15: after set_filtering_text(t) the visible rows are exactly the rows
\* that contain t without its leading and trailing blanks, letter case set
\* aside, in the order of the store; all rows when nothing is left of t.
C15_VisibleRowsContainTrimmedText ==
    filter_arg # None
        => filtered_directory_store = RowsContaining(Trimmed(filter_arg))

C15_Witness ==
    /\ filter_arg = << " ", "a" >>
    /\ Len(store) = 2
    /\ Len(filtered_directory_store) = 1
    /\ filtered_directory_store[1].type = TRACK


\* C16: set_filtering_text changes the filter text only: the store, the flag,
\* the lock, the current location and the populate threads stay as they
\* were, so it starts neither a build nor a pass.
C16_FilterTouchesNothingElse ==
    [][(filter_arg' # filter_arg \/ filtering_text' # filtering_text)
          => UNCHANGED vars]_allvars

C16_Witness ==
    /\ filtering_text = << "a" >>
    /\ filter_arg = << "a" >>
    /\ \E t \in Threads : tpc[t] = "item"
    /\ idle_queue # << >>


\* C17: when the last call with a key returned None because the decode
\* failed, a call with the same key whose file is now decodable decodes the
\* file and returns the scaled image.
C17_FailureNotCached ==
    [][(/\ probe' # probe
        /\ probe'.width = WatchedWidth
        /\ probe.last = "none"
        /\ probe'.ok)
          => (probe'.decoded /\ probe'.ret = ScaledPixbuf("p1", WatchedWidth))
      ]_allvars

\* C18 as stated: once a decode for a key has succeeded, every later call
\* with that key returns the same image and decodes nothing, however many
\* other keys were requested in between.
C18_MemoizedForEver ==
    [][(/\ probe' # probe
        /\ probe'.width = WatchedWidth
        /\ probe.held)
          => (~probe'.decoded /\ probe'.ret = ScaledPixbuf("p1", WatchedWidth))
      ]_allvars

\* C18: once a call with a key has returned an image, the next call with
\* that key returns the same image and decodes nothing when fewer than
\* CacheMaxSize other keys were requested in between.
C18_MemoizedWhileRecent ==
    [][(/\ probe' # probe
        /\ probe'.width = WatchedWidth
        /\ probe.last = "image"
        /\ probe.since < CacheMaxSize)
          => (~probe'.decoded /\ probe'.ret = ScaledPixbuf("p1", WatchedWidth))
      ]_allvars

C18_Witness ==
    /\ probe.width = WatchedWidth
    /\ probe.held
    /\ ~probe.decoded
    /\ probe.ret = ScaledPixbuf("p1", WatchedWidth)
    /\ probe.others >= CacheMaxSize - 1
    /\ cache[1].width = WatchedWidth + 1
    /\ Len(cache) = CacheMaxSize


\* C19: a populate thread never writes a row; it only adds a callback at the
\* end of the queue.  A row's image changes on the main thread only, by the
\* oldest queued callback, which leaves the queue as it is applied: the
\* callbacks are applied in the order they were queued, each once.
C19_HandoffsInOrderOnMainThread ==
    [][/\ store' # store => UNCHANGED << tpc, t_iter >>
       /\ (store' # store /\ mpc = "idle")
             => /\ idle_queue # << >>
                /\ idle_queue' = Tail(idle_queue)
                /\ Head(idle_queue).row \in 1..Len(store)
                /\ store' = [store EXCEPT ![Head(idle_queue).row].pixbuf =
                                               Head(idle_queue).pixbuf]
       /\ idle_queue' # idle_queue
             => \/ idle_queue # << >> /\ idle_queue' = Tail(idle_queue)
                \/ /\ Len(idle_queue') = Len(idle_queue) + 1
                   /\ SubSeq(idle_queue', 1, Len(idle_queue)) = idle_queue
                   /\ store' = store
                   /\ \E t \in Threads : tpc[t] = "item" /\ tpc'[t] = "check"
      ]_allvars

C19_Witness ==
    /\ Len(idle_queue) >= 1
    /\ \E i \in 1..Len(store) : store[i].pixbuf.tag = "scaled"
    /\ \E t \in Threads : tpc[t] = "item" /\ t_iter[t] = 2


\* C20: no client operation ends with the exception that using None as a
\* list raises: an absent result of any of its commands is coped with.
C20_AbsentResultNeverCrashes ==
    \A c \in Coroutines : ~(co[c].pc = "raised" /\ co[c].err = "TypeError")

C22_NotFoundRedirectsOnce ==
    /\ [](ops # << >> =>
            /\ (ops[1].op = "update_store" /\ ops[1].handled /\ ~ops[1].found)
                  => /\ ops[1].shown = (IF ops[1].before = "" THEN 0 ELSE 1)
                     /\ ops[1].calls = ops[1].shown + 1
                     /\ ~ops[1].overflow
            /\ ops[1].op = "show_directory"
                  => /\ ops[1].shown <= 2
                     /\ ops[1].calls <= 2
                     /\ ~ops[1].overflow)
    /\ [][(/\ ops' # ops
           /\ ops'[1].op = "update_store"
           /\ ops'[1].handled
           /\ ~ops'[1].found)
             => /\ store' = store
                /\ ongoing_store_update' = ongoing_store_update
                /\ directory_uri' = ""]_allvars

\* C22 witness: with rows in the store, neither the current location "d1"
\* nor the root was found: directory_uri was set once, to the root, and the
\* main thread is idle again.
C22_Witness ==
    /\ ops # << >>
    /\ ops[1].op = "update_store" /\ ops[1].handled /\ ~ops[1].found
    /\ ops[1].before = "d1"
    /\ ops[1].shown = 1 /\ ops[1].calls = 2
    /\ directory_uri = ""
    /\ store # << >>
    /\ mpc = "idle"

C24_MissingRowDropped ==
    [][(/\ ops' # ops
        /\ ops'[1].op = "update_pixbuf_at"
        /\ ops'[1].row > ops'[1].rows)
          => /\ store' = store
             /\ mpc' = "idle"
             /\ idle_queue # << >>
             /\ idle_queue' = Tail(idle_queue)]_allvars

\* C24 witness: the callback for row 2 was run after the store had been
\* rebuilt with one row.
C24_Witness ==
    /\ ops # << >>
    /\ ops[1].op = "update_pixbuf_at"
    /\ ops[1].row = 2 /\ ops[1].rows = 1
    /\ builds = 2

\* C25, as claimed: goto_parent_state, called with the directory page
\* visible right after show_directory(u, history=True) for a location u other
\* than the current one, leaves directory_uri as it was before show_directory.
C25_BackUndoesForward ==
    (/\ Len(ops) = 2
     /\ ops[1].op = "goto_parent_state" /\ ops[1].visible
     /\ ops[2].op = "show_directory" /\ ops[2].history
     /\ ops[2].u # ops[2].before)
        => directory_uri = ops[2].before

\* C25, amended: it does so when the location left was the root, and else
\* when u is not the root, the directory of u was found when it was shown and
\* the directory of the location left is found when going back.
C25_BackUndoesForwardWhenFound ==
    (/\ Len(ops) = 2
     /\ ops[1].op = "goto_parent_state" /\ ops[1].visible
     /\ ops[2].op = "show_directory" /\ ops[2].history
     /\ ops[2].u # ops[2].before
     /\ \/ ops[2].before = ""
        \/ ops[2].u # "" /\ ops[2].found /\ ops[1].found)
        => directory_uri = ops[2].before

\* C25 witness: from "d1" the user went to "d2" and back, both directories
\* were found and built.
C25_Witness ==
    /\ Len(ops) = 2
    /\ ops[1].op = "goto_parent_state" /\ ops[1].visible /\ ops[1].found
    /\ ops[2].op = "show_directory" /\ ops[2].history /\ ops[2].found
    /\ ops[2].before = "d1" /\ ops[2].u = "d2"
    /\ directory_uri = "d1"
    /\ builds = 2
    /\ mpc = "idle"

=============================================================================
